---- MODULE Spec2Model ----
(***************************************************************************)
(* GraphQLView (graphql_server/flask/graphqlview.py): the Flask view that  *)
(* turns one HTTP request into a call of run_http_query and the results    *)
(* into a JSON or GraphiQL response.                                       *)
(*                                                                         *)
(* A request is handled by a worker thread in the steps of                 *)
(* dispatch_request: parse_body, the GraphiQL/pretty decision, the call of *)
(* run_http_query (inside asyncio.run when enable_async), the encoding and *)
(* the response, or the except clause.                                     *)
(***************************************************************************)
EXTENDS Integers, Sequences, FiniteSets, TLC

\* Longest Accept header (number of media ranges) of SpecNegotiation.
MaxAccept == 2
\* Longest batch (elements of a JSON array body).
MaxBatch == 2

Workers == {"w1", "w2"}

---------------------------------------------------------------------------
\* Python values

PyNone == [type |-> "NoneType"]
PyObject == [type |-> "object"]
PyStr(text) == [type |-> "str", text |-> text]
PyInt == [type |-> "int"]
\* A mapping is a set of <<key, value>> pairs with distinct keys.
PyDict(items) == [type |-> "dict", items |-> items]
PyList(elems) == [type |-> "list", elems |-> elems]

IsMapping(v) == v.type = "dict"
IsList(v) == v.type = "list"
Truthy(v) ==
    CASE v.type = "NoneType" -> FALSE
      [] v.type = "dict" -> v.items # {}
      [] v.type = "list" -> v.elems # <<>>
      [] v.type = "str" -> v.text # <<>>
      [] OTHER -> TRUE

HasKey(d, k) == \E p \in d.items : p[1] = k
Get(d, k) == IF HasKey(d, k) THEN (CHOOSE p \in d.items : p[1] = k)[2] ELSE PyNone
Update(d, k, v) == PyDict({p \in d.items : p[1] # k} \cup {<<k, v>>})
Keys(d) == {p[1] : p \in d.items}

---------------------------------------------------------------------------
\* str.lower() on the request method, a sequence of characters

UpperCase == <<"A", "B", "C", "D", "E", "F", "G", "H", "I", "J", "K", "L", "M",
               "N", "O", "P", "Q", "R", "S", "T", "U", "V", "W", "X", "Y", "Z">>
LowerCase == <<"a", "b", "c", "d", "e", "f", "g", "h", "i", "j", "k", "l", "m",
               "n", "o", "p", "q", "r", "s", "t", "u", "v", "w", "x", "y", "z">>
LowerChar(c) ==
    IF \E i \in DOMAIN UpperCase : UpperCase[i] = c
    THEN LowerCase[CHOOSE i \in DOMAIN UpperCase : UpperCase[i] = c]
    ELSE c
lower(s) == [i \in DOMAIN s |-> LowerChar(s[i])]

GET == <<"g", "e", "t">>
POST == <<"p", "o", "s", "t">>

---------------------------------------------------------------------------
\* request.accept_mimetypes: the Accept header as werkzeug's MIMEAccept reads
\* it, a sequence of [mt |-> media range, q |-> quality in tenths].

value_matches(server, client) ==
    \/ client = "*/*"
    \/ client = server
    \/ client = "text/*" /\ server = "text/html"
    \/ client = "application/*" /\ server = "application/json"

specificity(client) ==
    CASE client = "*/*" -> 0
      [] client \in {"text/*", "application/*"} -> 1
      [] OTHER -> 2

\* The item MIMEAccept finds first for `server`: the list is kept sorted by
\* (specificity, quality), highest first.
Better(a, b) ==
    \/ specificity(a.mt) > specificity(b.mt)
    \/ specificity(a.mt) = specificity(b.mt) /\ a.q >= b.q
MatchingItems(accept, server) ==
    {accept[i] : i \in {j \in DOMAIN accept : value_matches(server, accept[j].mt)}}
HasMatch(accept, server) == MatchingItems(accept, server) # {}
best_single_match(accept, server) ==
    CHOOSE a \in MatchingItems(accept, server) :
        \A b \in MatchingItems(accept, server) : Better(a, b)

\* accept_mimetypes[key]
quality(accept, key) ==
    IF HasMatch(accept, key) THEN best_single_match(accept, key).q ELSE 0

\* accept_mimetypes.best_match(matches): the loop over the server's types,
\* from the state [result, quality, specificity] before item i.
RECURSIVE best_match_from(_, _, _, _)
best_match_from(accept, matches, i, best) ==
    IF i > Len(matches) THEN best.result
    ELSE IF ~HasMatch(accept, matches[i])
    THEN best_match_from(accept, matches, i + 1, best)
    ELSE LET m == best_single_match(accept, matches[i])
             sp == specificity(m.mt)
         IN IF m.q <= 0 \/ m.q < best.best_quality
            THEN best_match_from(accept, matches, i + 1, best)
            ELSE IF m.q > best.best_quality \/ sp > best.best_specificity
            THEN best_match_from(accept, matches, i + 1,
                     [result |-> matches[i], best_quality |-> m.q, best_specificity |-> sp])
            ELSE best_match_from(accept, matches, i + 1, best)
best_match(accept, matches) ==
    best_match_from(accept, matches, 1,
                  [result |-> "None", best_quality |-> -1, best_specificity |-> -1])

\* Mutant: a tie counts as a preference for HTML.
request_wants_html_NonStrict(req) ==
    LET best == best_match(req.accept, <<"application/json", "text/html">>)
    IN /\ best = "text/html"
       /\ quality(req.accept, best) >= quality(req.accept, "application/json")

request_wants_html(req) ==
    LET best == best_match(req.accept, <<"application/json", "text/html">>)
    IN /\ best = "text/html"
       /\ quality(req.accept, best) > quality(req.accept, "application/json")

\* Mutant: the raw parameter is not looked at.
should_display_graphiql_IgnoresRaw(self, req) ==
    IF ~self.graphiql THEN FALSE ELSE request_wants_html(req)

should_display_graphiql(self, req) ==
    IF ~self.graphiql \/ HasKey(req.args, "raw")
    THEN FALSE
    ELSE request_wants_html(req)

---------------------------------------------------------------------------
\* Exceptions

NoException == [type |-> "None", status_code |-> 0, message |-> "", headers |-> "None"]
HttpQueryError(status_code, message, headers) ==
    [type |-> "HttpQueryError", status_code |-> status_code,
     message |-> message, headers |-> headers]
OtherException(type) ==
    [type |-> type, status_code |-> 0, message |-> "", headers |-> "None"]

Returned(v) == [raised |-> NoException, value |-> v]
Raised(e) == [raised |-> e, value |-> PyNone]

---------------------------------------------------------------------------
\* request.data.decode("utf8").  A body is a sequence of byte tokens: a token
\* is a run of ASCII bytes that decodes to itself, or one of the single bytes
\* 0xC3 (a two-byte lead), 0xA9 (a continuation) and 0xFF (never valid).

AsciiTokens == {"{", "}", "[", "]", ",", ":", "1", "{a}", "\"query\"", "\"{a}\""}

RECURSIVE decode(_)
decode(bytes) ==
    IF bytes = <<>> THEN Returned(<<>>)
    ELSE IF Head(bytes) \in AsciiTokens
    THEN LET rest == decode(Tail(bytes))
         IN IF rest.raised.type # "None" THEN rest
            ELSE Returned(<<Head(bytes)>> \o rest.value)
    ELSE IF Head(bytes) = "0xC3" /\ Len(bytes) >= 2 /\ bytes[2] = "0xA9"
    THEN LET rest == decode(SubSeq(bytes, 3, Len(bytes)))
         IN IF rest.raised.type # "None" THEN rest
            ELSE Returned(<<"U+00E9">> \o rest.value)
    ELSE Raised(OtherException("UnicodeDecodeError"))

---------------------------------------------------------------------------
\* load_json_body: json.loads on the decoded text, HttpQueryError(400) when
\* it fails.  The parser reads JSON without whitespace: objects, arrays,
\* the string literals of AsciiTokens and the number 1.

StringLiteral(tok) ==
    CASE tok = "\"query\"" -> "query"
      [] tok = "\"{a}\"" -> "{a}"
IsStringLiteral(tok) == tok \in {"\"query\"", "\"{a}\""}

ParseFail == [ok |-> FALSE, value |-> PyNone, rest |-> <<>>]
Parsed(v, rest) == [ok |-> TRUE, value |-> v, rest |-> rest]
From(s, i) == SubSeq(s, i, Len(s))

RECURSIVE ParseValue(_), ParseMembers(_, _), ParseElements(_, _)
ParseValue(s) ==
    IF s = <<>> THEN ParseFail
    ELSE IF IsStringLiteral(s[1]) THEN Parsed(PyStr(<<StringLiteral(s[1])>>), Tail(s))
    ELSE IF s[1] = "1" THEN Parsed(PyInt, Tail(s))
    ELSE IF s[1] = "{"
    THEN IF Len(s) >= 2 /\ s[2] = "}" THEN Parsed(PyDict({}), From(s, 3))
         ELSE ParseMembers(Tail(s), PyDict({}))
    ELSE IF s[1] = "["
    THEN IF Len(s) >= 2 /\ s[2] = "]" THEN Parsed(PyList(<<>>), From(s, 3))
         ELSE ParseElements(Tail(s), <<>>)
    ELSE ParseFail
ParseMembers(s, acc) ==
    IF Len(s) >= 3 /\ IsStringLiteral(s[1]) /\ s[2] = ":"
    THEN LET v == ParseValue(From(s, 3))
         IN IF ~v.ok \/ v.rest = <<>> THEN ParseFail
            ELSE LET acc2 == Update(acc, StringLiteral(s[1]), v.value)
                 IN IF Head(v.rest) = "," THEN ParseMembers(Tail(v.rest), acc2)
                    ELSE IF Head(v.rest) = "}" THEN Parsed(acc2, Tail(v.rest))
                    ELSE ParseFail
    ELSE ParseFail
ParseElements(s, acc) ==
    LET v == ParseValue(s)
    IN IF ~v.ok \/ v.rest = <<>> THEN ParseFail
       ELSE LET acc2 == Append(acc, v.value)
            IN IF Head(v.rest) = "," THEN ParseElements(Tail(v.rest), acc2)
               ELSE IF Head(v.rest) = "]" THEN Parsed(PyList(acc2), Tail(v.rest))
               ELSE ParseFail

json_loads(text) ==
    LET r == ParseValue(text)
    IN IF r.ok /\ r.rest = <<>> THEN Returned(r.value)
       ELSE Raised(OtherException("JSONDecodeError"))

load_json_body(text) ==
    LET r == json_loads(text)
    IN IF r.raised.type = "None" THEN r
       ELSE Raised(HttpQueryError(400, "POST body sent invalid JSON.", "None"))

---------------------------------------------------------------------------
\* GraphQLView.parse_body

parse_body(req) ==
    IF req.mimetype = "application/graphql"
    THEN LET text == decode(req.data)
         IN IF text.raised.type # "None" THEN Raised(text.raised)
            ELSE Returned(PyDict({<<"query", PyStr(text.value)>>}))
    ELSE IF req.mimetype = "application/json"
    THEN LET text == decode(req.data)
         IN IF text.raised.type # "None" THEN Raised(text.raised)
            ELSE load_json_body(text.value)
    ELSE IF req.mimetype \in {"application/x-www-form-urlencoded", "multipart/form-data"}
    THEN Returned(req.form)
    ELSE Returned(PyDict({}))

---------------------------------------------------------------------------
\* GraphQLView.get_context.  The result names the context handed to
\* run_http_query, the object self.context refers to afterwards (copy.copy
\* gives a new mapping, so the updates never reach it) and whether
\* dataloaders_map_fn was called.

RequestRef(t) == [type |-> "request", of |-> t]
Dataloaders(t) == [type |-> "dataloaders", of |-> t]

\* Mutant: no copy, the updates are made to self.context itself.
get_context_NoCopy(self, t) ==
    LET aliased == Truthy(self.context) /\ IsMapping(self.context)
        context == IF aliased THEN self.context ELSE PyDict({})
        with_request == IF IsMapping(context) /\ ~HasKey(context, "request")
                        THEN Update(context, "request", RequestRef(t))
                        ELSE context
        call_factory == /\ self.dataloaders_map_fn
                        /\ IsMapping(with_request)
                        /\ ~HasKey(with_request, "dataloaders")
        with_loaders == IF call_factory
                        THEN Update(with_request, "dataloaders", Dataloaders(t))
                        ELSE with_request
    IN [context |-> with_loaders,
        self_context |-> IF aliased THEN with_loaders ELSE self.context,
        factory_called |-> call_factory]

get_context(self, t) ==
    LET copied == IF Truthy(self.context) /\ IsMapping(self.context)
                  THEN self.context
                  ELSE PyDict({})
        with_request == IF IsMapping(copied) /\ ~HasKey(copied, "request")
                        THEN Update(copied, "request", RequestRef(t))
                        ELSE copied
        call_factory == /\ self.dataloaders_map_fn
                        /\ IsMapping(with_request)
                        /\ ~HasKey(with_request, "dataloaders")
        with_loaders == IF call_factory
                        THEN Update(with_request, "dataloaders", Dataloaders(t))
                        ELSE with_request
    IN [context |-> with_loaders,
        self_context |-> self.context,
        factory_called |-> call_factory]

---------------------------------------------------------------------------
\* run_http_query and what it calls (graphql_server/__init__.py)

GraphQLParams(query) == [query |-> query]

\* get_graphql_params: the entry's query, else the query string's.
get_graphql_params(entry, query_data) ==
    GraphQLParams(IF Truthy(Get(entry, "query"))
                  THEN Get(entry, "query")
                  ELSE Get(query_data, "query"))

ExecutionResult(errors) == [kind |-> "ExecutionResult", errors |-> errors]
NoneResult == [kind |-> "None", errors |-> FALSE]
\* An awaitable that resolves to ExecutionResult(errors).
Awaitable(errors) == [kind |-> "awaitable", errors |-> errors]
is_awaitable(ex) == ex.kind = "awaitable"
Await(ex) == ExecutionResult(ex.errors)

EntryReturns(ex) == [raised |-> NoException, result |-> ex]
EntryRaises(e) == [raised |-> e, result |-> NoneResult]

\* get_response for one GraphQLParams: what the engine may do with it.  An
\* HttpQueryError is swallowed (the result is None) when catch is set.
get_response(params, catch, allow_only_query, run_sync) ==
    LET raw == IF ~Truthy(params.query)
               THEN {EntryRaises(HttpQueryError(400, "Must provide query string.", "None"))}
               ELSE {EntryReturns(ExecutionResult(FALSE)), EntryReturns(ExecutionResult(TRUE))}
                    \cup (IF run_sync THEN {}
                          ELSE {EntryReturns(Awaitable(FALSE)), EntryReturns(Awaitable(TRUE))})
                    \cup (IF allow_only_query
                          THEN {EntryRaises(HttpQueryError(405,
                                    "Can only perform a mutation operation from a POST request.",
                                    "Allow: POST"))}
                          ELSE {})
    IN {IF catch /\ o.raised.type = "HttpQueryError" THEN EntryReturns(NoneResult) ELSE o
        : o \in raw}

RECURSIVE SeqProduct(_)
SeqProduct(sets) ==
    IF sets = <<>> THEN {<<>>}
    ELSE {<<h>> \o t : h \in Head(sets), t \in SeqProduct(Tail(sets))}

QueryRaises(e) == [raised |-> e, execution_results |-> <<>>, all_params |-> <<>>]
QueryReturns(results, params) ==
    [raised |-> NoException, execution_results |-> results, all_params |-> params]

\* The list comprehension over all_params: the first entry that raises ends it.
CollectResponses(outs, all_params) ==
    IF \E i \in DOMAIN outs : outs[i].raised.type # "None"
    THEN LET first == CHOOSE i \in DOMAIN outs :
                          /\ outs[i].raised.type # "None"
                          /\ \A j \in 1..(i - 1) : outs[j].raised.type = "None"
         IN QueryRaises(outs[first].raised)
    ELSE QueryReturns([i \in DOMAIN outs |-> outs[i].result], all_params)

\* Every (execution_results, all_params) or exception the call may end in.
run_http_query(request_method, data, query_data, batch_enabled, catch, run_sync) ==
    LET batch_request == IsList(data)
        allow_only_query == request_method = GET
    IN IF request_method \notin {GET, POST}
       THEN {QueryRaises(HttpQueryError(405, "GraphQL only supports GET and POST requests.",
                                        "Allow: GET, POST"))}
       ELSE IF ~batch_request /\ ~IsMapping(data)
       THEN {QueryRaises(HttpQueryError(400, "GraphQL params should be a dict.", "None"))}
       ELSE IF batch_request /\ ~batch_enabled
       THEN {QueryRaises(HttpQueryError(400, "Batch GraphQL requests are not enabled.", "None"))}
       ELSE LET entries == IF batch_request THEN data.elems ELSE <<data>>
            IN IF entries = <<>>
               THEN {QueryRaises(HttpQueryError(400,
                         "Received an empty list in the batch request.", "None"))}
               ELSE IF \E i \in DOMAIN entries : ~IsMapping(entries[i])
               THEN {QueryRaises(OtherException("AttributeError"))}
               ELSE LET extra_data == IF batch_request THEN PyDict({}) ELSE query_data
                        all_params == [i \in DOMAIN entries |->
                                          get_graphql_params(entries[i], extra_data)]
                        choices == SeqProduct([i \in DOMAIN entries |->
                                       get_response(all_params[i], catch,
                                                           allow_only_query, run_sync)])
                    IN {CollectResponses(outs, all_params) : outs \in choices}
                       \cup {QueryRaises(OtherException("Exception"))}

---------------------------------------------------------------------------
\* encode_execution_results, format_execution_result and json_encode

JNull == [shape |-> "null", has_data |-> FALSE, errors |-> <<>>, elems |-> <<>>]
JObject(has_data, errors) ==
    [shape |-> "object", has_data |-> has_data, errors |-> errors, elems |-> <<>>]
JArray(elems) == [shape |-> "array", has_data |-> FALSE, errors |-> <<>>, elems |-> elems]

\* format_error_default on GraphQLError(message)
format_error(message) == [message |-> message]

\* json_encode: the text json.dumps writes for value, indented when pretty.
json_encode(value, pretty) == [value |-> value, indent |-> pretty]

format_execution_result(ex) ==
    IF ex.kind = "None" THEN [response |-> JNull, status_code |-> 200]
    ELSE IF ex.errors
    THEN [response |-> JObject(FALSE, <<format_error("execution error")>>), status_code |-> 400]
    ELSE [response |-> JObject(TRUE, <<>>), status_code |-> 200]

Max(S) == CHOOSE x \in S : \A y \in S : x >= y

\* A result that is still an awaitable has no `errors` attribute.
encode_execution_results(execution_results, batch_request, pretty) ==
    IF \E i \in DOMAIN execution_results : is_awaitable(execution_results[i])
    THEN [raised |-> OtherException("AttributeError"),
          result |-> json_encode(JNull, FALSE), status_code |-> 0]
    ELSE LET responses == [i \in DOMAIN execution_results |->
                              format_execution_result(execution_results[i])]
             result == [i \in DOMAIN responses |-> responses[i].response]
             status_code == Max({responses[i].status_code : i \in DOMAIN responses})
         IN [raised |-> NoException,
             result |-> json_encode(IF batch_request THEN JArray(result) ELSE result[1], pretty),
             status_code |-> status_code]

---------------------------------------------------------------------------
\* State

VARIABLES
    view,           \* the GraphQLView instance: its options, shared by all requests
    pc,             \* where each worker thread is in dispatch_request
    request,        \* flask.request of each worker
    running_loop,   \* asyncio's running event loop of each thread, or "None"
    bridge,         \* the loop asyncio.run made for the worker's request, or "None"
    frame,          \* the locals of dispatch_request
    raised,         \* the exception raised inside the try block, if any
    response,       \* what dispatch_request returned
    hist            \* per request: what was called, and with what

vars == <<view, pc, request, running_loop, bridge, frame, raised, response, hist>>

LoopIds == {"loop1", "loop2"}

NoRequest ==
    [method |-> <<>>, mimetype |-> "", data |-> <<>>, form |-> PyDict({}),
     args |-> PyDict({}), accept |-> <<>>]
EmptyFrame ==
    [request_method |-> <<>>, data |-> PyNone, show_graphiql |-> FALSE, catch |-> FALSE,
     pretty |-> FALSE, execution_results |-> <<>>, resolved |-> <<>>, all_params |-> <<>>]
NoResponse ==
    [content_type |-> "None", status |-> 0, headers |-> "None",
     body |-> json_encode(JNull, FALSE)]
NoHistory ==
    [bridges |-> 0, queries |-> 0, factory_calls |-> 0, query_loop |-> "None",
     thread_loop |-> "None", context_value |-> PyNone, returned_results |-> <<>>, returned_params |-> <<>>,
     parsed |-> Returned(PyNone)]

Init(views) ==
    /\ view \in views
    /\ pc = [t \in Workers |-> "idle"]
    /\ request = [t \in Workers |-> NoRequest]
    /\ running_loop = [t \in Workers |-> "None"]
    /\ bridge = [t \in Workers |-> "None"]
    /\ frame = [t \in Workers |-> EmptyFrame]
    /\ raised = [t \in Workers |-> NoException]
    /\ response = [t \in Workers |-> NoResponse]
    /\ hist = [t \in Workers |-> NoHistory]

---------------------------------------------------------------------------
\* The steps of dispatch_request on worker t

\* Flask hands a request to the view.  `loops` are the event loops the
\* calling thread may already be running ("None": none).
Receive(t, requests, loops) ==
    /\ pc[t] = "idle"
    /\ \E r \in requests, l \in loops :
        /\ request' = [request EXCEPT ![t] = r]
        /\ running_loop' = [running_loop EXCEPT ![t] = l]
        /\ hist' = [hist EXCEPT ![t] = [NoHistory EXCEPT !.thread_loop = l]]
    /\ pc' = [pc EXCEPT ![t] = "parse_body"]
    /\ frame' = [frame EXCEPT ![t] = EmptyFrame]
    /\ raised' = [raised EXCEPT ![t] = NoException]
    /\ response' = [response EXCEPT ![t] = NoResponse]
    /\ UNCHANGED <<view, bridge>>

\* An exception leaves the try block; one raised inside asyncio.run closes
\* the loop on its way out.
Raise(t, e) ==
    /\ raised' = [raised EXCEPT ![t] = e]
    /\ pc' = [pc EXCEPT ![t] = "raised"]
    /\ bridge' = [bridge EXCEPT ![t] = "None"]
    /\ running_loop' = [running_loop EXCEPT ![t] =
                           IF bridge[t] # "None" THEN "None" ELSE running_loop[t]]

\* Mutant: errors are never caught.
CatchMode_Never(show_graphiql) == FALSE

\* catch = show_graphiql
CatchMode(show_graphiql) == show_graphiql

\* pretty = self.pretty or show_graphiql or request.args.get("pretty")
PrettyFlag(self, show_graphiql, req) ==
    \/ self.pretty
    \/ show_graphiql
    \/ Truthy(Get(req.args, "pretty"))

\* Mutant: the results are always encoded as a single result.
is_batch_Never(data) == FALSE

\* is_batch=isinstance(data, list)
is_batch(data) == IsList(data)

\* Mutant: the awaitable is kept, not awaited.
ResolveResult_NoAwait(ex) == ex

\* ex if ex is None or not is_awaitable(ex) else await ex
ResolveResult(ex) ==
    IF ex.kind = "None" \/ ~is_awaitable(ex) THEN ex ELSE Await(ex)

\* Mutant: the error's headers are dropped.
ErrorResponse_NoHeaders(e) ==
    [content_type |-> "application/json",
     status |-> e.status_code,
     headers |-> "None",
     body |-> json_encode(JObject(FALSE, <<format_error(e.message)>>), FALSE)]

\* The Response of the except clause.
ErrorResponse(e) ==
    [content_type |-> "application/json",
     status |-> e.status_code,
     headers |-> e.headers,
     body |-> json_encode(JObject(FALSE, <<format_error(e.message)>>), FALSE)]

\* request_method = request.method.lower(); data = self.parse_body()
ParseBodyStep(t) ==
    /\ pc[t] = "parse_body"
    /\ LET r == parse_body(request[t])
       IN /\ hist' = [hist EXCEPT ![t].parsed = r]
          /\ IF r.raised.type # "None"
             THEN /\ Raise(t, r.raised)
                  /\ frame' = [frame EXCEPT ![t].request_method = lower(request[t].method)]
             ELSE /\ frame' = [frame EXCEPT ![t].request_method = lower(request[t].method),
                                            ![t].data = r.value]
                  /\ pc' = [pc EXCEPT ![t] = "decide"]
                  /\ UNCHANGED <<raised, bridge, running_loop>>
    /\ UNCHANGED <<view, request, response>>

\* show_graphiql, catch and pretty
Decide(t) ==
    /\ pc[t] = "decide"
    /\ LET show == /\ frame[t].request_method = GET
                   /\ should_display_graphiql(view, request[t])
       IN frame' = [frame EXCEPT
                       ![t].show_graphiql = show,
                       ![t].catch = CatchMode(show),
                       ![t].pretty = PrettyFlag(view, show, request[t])]
    /\ pc' = [pc EXCEPT ![t] = "dispatch"]
    /\ UNCHANGED <<view, request, running_loop, bridge, raised, response, hist>>

\* Mutant: a new loop is run whether or not the thread is running one.
asyncio_run_Nested(t) ==
    /\ pc[t] = "dispatch"
    /\ view.enable_async
    /\ \E l \in LoopIds \ {bridge[u] : u \in Workers} :
        /\ bridge' = [bridge EXCEPT ![t] = l]
        /\ running_loop' = [running_loop EXCEPT ![t] = l]
    /\ hist' = [hist EXCEPT ![t].bridges = @ + 1]
    /\ pc' = [pc EXCEPT ![t] = "coroutine"]
    /\ UNCHANGED <<view, request, frame, response, raised>>

\* asyncio.run(await_execution_results()): a new event loop, unless the
\* thread is already running one.
asyncio_run(t) ==
    /\ pc[t] = "dispatch"
    /\ view.enable_async
    /\ IF running_loop[t] # "None"
       THEN /\ Raise(t, OtherException("RuntimeError"))
            /\ UNCHANGED hist
       ELSE /\ \E l \in LoopIds \ {bridge[u] : u \in Workers} :
                /\ bridge' = [bridge EXCEPT ![t] = l]
                /\ running_loop' = [running_loop EXCEPT ![t] = l]
            /\ hist' = [hist EXCEPT ![t].bridges = @ + 1]
            /\ pc' = [pc EXCEPT ![t] = "coroutine"]
            /\ UNCHANGED raised
    /\ UNCHANGED <<view, request, frame, response>>

\* self.run_http_query(request_method, data, catch), called directly or as
\* the first statement of the coroutine; get_context() is one of its arguments.
GraphQLView_run_http_query(t) ==
    /\ \/ pc[t] = "dispatch" /\ ~view.enable_async
       \/ pc[t] = "coroutine"
    /\ LET gc == get_context(view, t)
       IN /\ view' = [view EXCEPT !.context = gc.self_context]
          /\ \E o \in run_http_query(frame[t].request_method, frame[t].data,
                                           request[t].args, view.batch, frame[t].catch,
                                           ~view.enable_async) :
              /\ hist' = [hist EXCEPT
                             ![t].queries = @ + 1,
                             ![t].factory_calls = @ + (IF gc.factory_called THEN 1 ELSE 0),
                             ![t].query_loop = running_loop[t],
                             ![t].context_value = gc.context,
                             ![t].returned_results = o.execution_results,
                             ![t].returned_params = o.all_params]
              /\ IF o.raised.type # "None"
                 THEN /\ Raise(t, o.raised)
                      /\ UNCHANGED frame
                 ELSE /\ frame' = [frame EXCEPT
                                      ![t].execution_results = o.execution_results,
                                      ![t].all_params = o.all_params]
                      /\ pc' = [pc EXCEPT ![t] = IF view.enable_async THEN "await"
                                                 ELSE "encode"]
                      /\ UNCHANGED <<raised, bridge, running_loop>>
    /\ UNCHANGED <<request, response>>

\* One element of the list comprehension of await_execution_results.
await_execution_results(t) ==
    /\ pc[t] = "await"
    /\ Len(frame[t].resolved) < Len(frame[t].execution_results)
    /\ LET ex == frame[t].execution_results[Len(frame[t].resolved) + 1]
       IN frame' = [frame EXCEPT ![t].resolved = Append(@, ResolveResult(ex))]
    /\ UNCHANGED <<view, pc, request, running_loop, bridge, raised, response, hist>>

\* The coroutine returns, asyncio.run closes its loop and hands the list to
\* dispatch_request.
asyncio_run_return(t) ==
    /\ pc[t] = "await"
    /\ Len(frame[t].resolved) = Len(frame[t].execution_results)
    /\ frame' = [frame EXCEPT ![t].execution_results = frame[t].resolved]
    /\ bridge' = [bridge EXCEPT ![t] = "None"]
    /\ running_loop' = [running_loop EXCEPT ![t] = "None"]
    /\ pc' = [pc EXCEPT ![t] = "encode"]
    /\ UNCHANGED <<view, request, raised, response, hist>>

\* render_graphiql_sync and render_template_string: the page, holding the
\* encoded result.
render_graphiql_sync(result) ==
    [value |-> [shape |-> "html", has_data |-> FALSE, errors |-> <<>>, elems |-> <<result.value>>],
     indent |-> result.indent]

\* encode_execution_results, then the GraphiQL page or the JSON response.
EncodeAndRespond(t) ==
    /\ pc[t] = "encode"
    /\ LET enc == encode_execution_results(frame[t].execution_results,
                                         is_batch(frame[t].data), frame[t].pretty)
       IN IF enc.raised.type # "None"
          THEN /\ Raise(t, enc.raised)
               /\ UNCHANGED response
          ELSE /\ response' = [response EXCEPT ![t] =
                      IF frame[t].show_graphiql
                      THEN [content_type |-> "text/html", status |-> 200,
                            headers |-> "None", body |-> render_graphiql_sync(enc.result)]
                      ELSE [content_type |-> "application/json",
                            status |-> enc.status_code,
                            headers |-> "None", body |-> enc.result]]
               /\ pc' = [pc EXCEPT ![t] = "done"]
               /\ UNCHANGED <<raised, bridge, running_loop>>
    /\ UNCHANGED <<view, request, frame, hist>>

\* except HttpQueryError as e
except_HttpQueryError(t) ==
    /\ pc[t] = "raised"
    /\ raised[t].type = "HttpQueryError"
    /\ response' = [response EXCEPT ![t] = ErrorResponse(raised[t])]
    /\ pc' = [pc EXCEPT ![t] = "done"]
    /\ UNCHANGED <<view, request, running_loop, bridge, frame, raised, hist>>

\* Any other exception leaves dispatch_request; no response is returned.
Propagate(t) ==
    /\ pc[t] = "raised"
    /\ raised[t].type # "HttpQueryError"
    /\ pc' = [pc EXCEPT ![t] = "failed"]
    /\ UNCHANGED <<view, request, running_loop, bridge, frame, raised, response, hist>>

\* The response (or the error) has gone to the client: the request and all
\* that was made for it are dropped, the worker takes the next one.
Finish(t) ==
    /\ pc[t] \in {"done", "failed"}
    /\ pc' = [pc EXCEPT ![t] = "idle"]
    /\ request' = [request EXCEPT ![t] = NoRequest]
    /\ running_loop' = [running_loop EXCEPT ![t] = "None"]
    /\ frame' = [frame EXCEPT ![t] = EmptyFrame]
    /\ raised' = [raised EXCEPT ![t] = NoException]
    /\ response' = [response EXCEPT ![t] = NoResponse]
    /\ hist' = [hist EXCEPT ![t] = NoHistory]
    /\ UNCHANGED <<view, bridge>>

---------------------------------------------------------------------------
\* The views and requests of the specifications

DefaultView ==
    [graphiql |-> FALSE, pretty |-> FALSE, batch |-> FALSE, enable_async |-> FALSE,
     context |-> PyNone, dataloaders_map_fn |-> FALSE]

Methods == {<<"G", "E", "T">>, <<"P", "O", "S", "T">>, <<"P", "U", "T">>,
            <<"D", "E", "L", "E", "T", "E">>}

\* {"query":"{a}"} and a batch of n of them
ObjectBody == <<"{", "\"query\"", ":", "\"{a}\"", "}">>
RECURSIVE Repeat(_, _)
Repeat(n, item) == IF n = 0 THEN <<>> ELSE IF n = 1 THEN item
                   ELSE item \o <<",">> \o Repeat(n - 1, item)
BatchBody(n) == <<"[">> \o Repeat(n, ObjectBody) \o <<"]">>

QueryText == PyStr(<<"{a}">>)
Body(mimetype, data, form) == [mimetype |-> mimetype, data |-> data, form |-> form]
Bodies ==
    {Body("application/json", d, PyDict({})) :
        d \in {ObjectBody, <<"1">>, <<"{">>, <<"0xFF">>} \cup {BatchBody(n) : n \in 0..MaxBatch}}
    \cup {Body("application/graphql", d, PyDict({})) :
        d \in {<<"{a}">>, <<"0xC3", "0xA9">>, <<"0xFF">>}}
    \cup {Body("application/x-www-form-urlencoded", <<>>, PyDict({<<"query", QueryText>>})),
          Body("multipart/form-data", <<>>, PyDict({})),
          Body("text/plain", <<"0xFF">>, PyDict({})),
          Body("", <<>>, PyDict({}))}

\* The query strings: ?raw=1, ?pretty= or ?pretty=1, ?query={a}
ArgsOf(raw, pretty, query) ==
    PyDict((IF raw THEN {<<"raw", PyStr(<<"1">>)>>} ELSE {})
           \cup (IF pretty = "absent" THEN {}
                 ELSE IF pretty = "" THEN {<<"pretty", PyStr(<<>>)>>}
                 ELSE {<<"pretty", PyStr(<<pretty>>)>>})
           \cup (IF query THEN {<<"query", QueryText>>} ELSE {}))
Args == {ArgsOf(raw, pretty, query) :
            raw \in BOOLEAN, pretty \in {"absent", "", "1"}, query \in BOOLEAN}

Range(mt, q) == [mt |-> mt, q |-> q]
AcceptHeaders ==
    {<<>>,
     <<Range("application/json", 10)>>,
     <<Range("text/html", 10)>>,
     <<Range("text/html", 10), Range("*/*", 10)>>,
     <<Range("text/html", 10), Range("*/*", 8)>>}

Requests ==
    {[method |-> m, mimetype |-> b.mimetype, data |-> b.data, form |-> b.form,
      args |-> a, accept |-> h] :
        m \in Methods, b \in Bodies, a \in Args, h \in AcceptHeaders}

Views ==
    {[DefaultView EXCEPT !.graphiql = g, !.pretty = p, !.batch = b, !.enable_async = a] :
        g \in BOOLEAN, p \in BOOLEAN, b \in BOOLEAN, a \in BOOLEAN}

---------------------------------------------------------------------------
\* One worker serving any request, one after the other

Next ==
    \/ Receive("w1", Requests, {"None"})
    \/ ParseBodyStep("w1")
    \/ Decide("w1")
    \/ asyncio_run("w1")
    \/ GraphQLView_run_http_query("w1")
    \/ await_execution_results("w1")
    \/ asyncio_run_return("w1")
    \/ EncodeAndRespond("w1")
    \/ except_HttpQueryError("w1")
    \/ Propagate("w1")
    \/ Finish("w1")

Spec == Init(Views) /\ [][Next]_vars

---------------------------------------------------------------------------
\* Content negotiation: one worker, every Accept header of up to MaxAccept
\* media ranges

MediaRanges ==
    {Range(mt, q) : mt \in {"*/*", "text/*", "text/html", "application/json"},
                    q \in {0, 5, 10}}
SeqsUpTo(S, n) == UNION {[1..k -> S] : k \in 0..n}

NegotiationRequests ==
    {[method |-> m, mimetype |-> b.mimetype, data |-> b.data, form |-> b.form,
      args |-> ArgsOf(raw, "absent", TRUE), accept |-> h] :
        m \in {<<"G", "E", "T">>, <<"g", "e", "t">>, <<"P", "O", "S", "T">>},
        b \in {Body("application/graphql", <<"{a}">>, PyDict({})),
               Body("application/json", <<"{">>, PyDict({}))},
        raw \in BOOLEAN,
        h \in SeqsUpTo(MediaRanges, MaxAccept)}

NegotiationViews ==
    {[DefaultView EXCEPT !.graphiql = g, !.enable_async = a] :
        g \in BOOLEAN, a \in BOOLEAN}

NextNegotiation ==
    \/ Receive("w1", NegotiationRequests, {"None"})
    \/ ParseBodyStep("w1")
    \/ Decide("w1")
    \/ asyncio_run("w1")
    \/ GraphQLView_run_http_query("w1")
    \/ await_execution_results("w1")
    \/ asyncio_run_return("w1")
    \/ EncodeAndRespond("w1")
    \/ except_HttpQueryError("w1")
    \/ Propagate("w1")
    \/ Finish("w1")

SpecNegotiation == Init(NegotiationViews) /\ [][NextNegotiation]_vars

---------------------------------------------------------------------------
\* Two worker threads serving requests of one view at the same time, each
\* called with or without an event loop already running in its thread

Configured(name) == [type |-> "configured", of |-> name]
ConfiguredContexts ==
    {PyNone, PyObject, PyDict({}),
     PyDict({<<"user", Configured("user")>>}),
     PyDict({<<"request", Configured("request")>>}),
     PyDict({<<"dataloaders", Configured("dataloaders")>>}),
     PyDict({<<"request", Configured("request")>>,
             <<"dataloaders", Configured("dataloaders")>>})}

ConcurrentRequests ==
    {[method |-> <<"P", "O", "S", "T">>, mimetype |-> "application/json", data |-> d,
      form |-> PyDict({}), args |-> PyDict({}), accept |-> <<>>] :
        d \in {ObjectBody, <<"{">>}}

ConcurrentViews ==
    {[DefaultView EXCEPT !.enable_async = a, !.context = c, !.dataloaders_map_fn = f] :
        a \in BOOLEAN, c \in ConfiguredContexts, f \in BOOLEAN}

NextConcurrent ==
    \E t \in Workers :
        \/ Receive(t, ConcurrentRequests, {"None", "outer"})
        \/ ParseBodyStep(t)
        \/ Decide(t)
        \/ asyncio_run(t)
        \/ GraphQLView_run_http_query(t)
        \/ await_execution_results(t)
        \/ asyncio_run_return(t)
        \/ EncodeAndRespond(t)
        \/ except_HttpQueryError(t)
        \/ Propagate(t)
        \/ Finish(t)

SpecConcurrent == Init(ConcurrentViews) /\ [][NextConcurrent]_vars

---------------------------------------------------------------------------
\* Properties

JSON == "application/json"
HTML == "text/html"

Answered(t) == pc[t] = "done"
\* parse_body has returned and line 112 has run
Decided(t) ==
    /\ pc[t] \notin {"idle", "parse_body", "decide"}
    /\ hist[t].parsed.raised.type = "None"
HtmlQ(t) == quality(request[t].accept, HTML)
JsonQ(t) == quality(request[t].accept, JSON)
\* What the request asks for: GET, GraphiQL on, no raw, HTML strictly preferred
WantsGraphiql(t) ==
    /\ lower(request[t].method) = GET
    /\ view.graphiql
    /\ ~HasKey(request[t].args, "raw")
    /\ HtmlQ(t) > JsonQ(t)
HasParam(t, key, value) == <<key, PyStr(value)>> \in request[t].args.items

\* C1: once dispatch_request has decided, show_graphiql is true exactly when
\* the method is GET in any letter case, graphiql is enabled, the query
\* string has no raw parameter, best_match picks text/html and text/html has
\* a strictly greater quality than application/json; the best-match condition
\* adds nothing to the strict comparison, and a tie or a preference for JSON
\* gives false.
C1_ShowGraphiqlDecision ==
    \A t \in Workers :
        Decided(t) =>
            /\ frame[t].show_graphiql =
                   (/\ lower(request[t].method) = GET
                    /\ view.graphiql
                    /\ ~HasKey(request[t].args, "raw")
                    /\ best_match(request[t].accept, <<JSON, HTML>>) = HTML
                    /\ HtmlQ(t) > JsonQ(t))
            /\ frame[t].show_graphiql = WantsGraphiql(t)
            /\ (HtmlQ(t) <= JsonQ(t) => ~frame[t].show_graphiql)

\* An upper-case GET that accepts both types, HTML strictly more, was decided
\* for GraphiQL.
C1_Witness ==
    \E t \in Workers :
        /\ Decided(t)
        /\ frame[t].show_graphiql
        /\ request[t].method = <<"G", "E", "T">>
        /\ JsonQ(t) > 0

\* C2 as stated: every response to a request whose body parsed to a list has
\* a JSON array as its body.
C2_BatchAlwaysArray ==
    \A t \in Workers :
        Answered(t) /\ IsList(frame[t].data) =>
            response[t].body.value.shape = "array"

\* C2, amended: a request whose body parsed to a list gets a JSON array with
\* one element per entry whenever the response is the application/json
\* response of the encoding step; the response of the except clause is a
\* single object, and the remaining responses are the GraphiQL page.
C2_BatchArrayWhenEncoded ==
    \A t \in Workers :
        Answered(t) /\ IsList(frame[t].data) =>
            /\ (raised[t].type = "None" /\ response[t].content_type = JSON =>
                    /\ response[t].body.value.shape = "array"
                    /\ Len(response[t].body.value.elems) = Len(frame[t].data.elems)
                    /\ Len(frame[t].data.elems) >= 1)
            /\ (raised[t].type # "None" => response[t].body.value.shape = "object")
            /\ (response[t].content_type # JSON => frame[t].show_graphiql)

\* A batch of one element was answered with an array of one element.
C2_Witness ==
    \E t \in Workers :
        /\ Answered(t)
        /\ IsList(frame[t].data)
        /\ Len(frame[t].data.elems) = 1
        /\ response[t].content_type = JSON
        /\ response[t].body.value.shape = "array"
        /\ Len(response[t].body.value.elems) = 1

\* C3: an HttpQueryError raised in the try block always ends in the
\* application/json response holding exactly one error with the error's
\* message, status code and headers; any other exception ends without a
\* response; and dispatch_request fails in no other way.
C3_FailurePath ==
    \A t \in Workers :
        /\ (raised[t].type = "HttpQueryError" /\ pc[t] # "raised" =>
                /\ pc[t] = "done"
                /\ response[t].content_type = JSON
                /\ response[t].status = raised[t].status_code
                /\ response[t].headers = raised[t].headers
                /\ response[t].body.value.shape = "object"
                /\ ~response[t].body.value.has_data
                /\ Len(response[t].body.value.errors) = 1
                /\ response[t].body.value.errors[1].message = raised[t].message)
        /\ (raised[t].type \notin {"None", "HttpQueryError"} =>
                /\ pc[t] \in {"raised", "failed"}
                /\ response[t].content_type = "None")
        /\ (pc[t] = "failed" => raised[t].type \notin {"None", "HttpQueryError"})

\* A malformed JSON body was answered with the 400 error response although
\* the request asked for GraphiQL.
C3_Witness ==
    \E t \in Workers :
        /\ Answered(t)
        /\ raised[t].type = "HttpQueryError"
        /\ request[t].mimetype = JSON
        /\ response[t].status = 400
        /\ WantsGraphiql(t)

C5_HtmlOnlyForGraphiql ==
    \A t \in Workers :
        Answered(t) =>
            /\ response[t].content_type \in {JSON, HTML}
            /\ (response[t].content_type = HTML =>
                    frame[t].show_graphiql /\ WantsGraphiql(t))
            /\ (HasKey(request[t].args, "raw") => response[t].content_type = JSON)
            /\ (request[t].accept = <<Range(JSON, 10)>> =>
                    response[t].content_type = JSON)

\* A GET with ?raw=1 that otherwise asks for GraphiQL got the JSON result.
C5_Witness ==
    \E t \in Workers :
        /\ Answered(t)
        /\ HasKey(request[t].args, "raw")
        /\ lower(request[t].method) = GET
        /\ view.graphiql
        /\ HtmlQ(t) > JsonQ(t)
        /\ raised[t].type = "None"
        /\ response[t].content_type = JSON

\* C6 as stated: the pretty flag handed to encode_execution_results is true
\* if pretty is configured, if GraphiQL is shown or if the query string has
\* pretty=1, and every JSON response to a request with ?pretty=1 is
\* indented.
C6_PrettyParamIndents ==
    \A t \in Workers :
        /\ (/\ pc[t] = "encode"
            /\ \/ view.pretty
               \/ frame[t].show_graphiql
               \/ HasParam(t, "pretty", <<"1">>)
            => frame[t].pretty)
        /\ (Answered(t) /\ response[t].content_type = JSON
                /\ HasParam(t, "pretty", <<"1">>) =>
                response[t].body.indent)

\* C7 as stated: what parse_body gives for each mimetype.
C7_ParseBodyShapes ==
    \A t \in Workers :
        pc[t] \notin {"idle", "parse_body"} =>
            LET r == hist[t].parsed
                mt == request[t].mimetype
            IN IF mt = "application/graphql"
               THEN /\ r.raised.type = "None"
                    /\ Keys(r.value) = {"query"}
                    /\ Get(r.value, "query").type = "str"
               ELSE IF mt = JSON
               THEN r.raised.type \in {"None", "HttpQueryError"}
               ELSE IF mt \in {"application/x-www-form-urlencoded", "multipart/form-data"}
               THEN r.raised.type = "None" /\ r.value = request[t].form
               ELSE r.raised.type = "None" /\ r.value = PyDict({})

\* C8: no awaitable reaches encode_execution_results; in asynchronous mode
\* the list handed to it has the length and order of the list run_http_query
\* returned, with each awaitable replaced by what it resolves to and every
\* other result, None included, as it was, and all_params is unchanged.
C8_AwaitedBeforeEncoding ==
    \A t \in Workers :
        pc[t] = "encode" =>
            /\ \A i \in DOMAIN frame[t].execution_results :
                   ~is_awaitable(frame[t].execution_results[i])
            /\ view.enable_async =>
                   LET before == hist[t].returned_results
                       after == frame[t].execution_results
                   IN /\ Len(after) = Len(before)
                      /\ \A i \in DOMAIN before :
                             after[i] = IF before[i].kind = "awaitable"
                                        THEN ExecutionResult(before[i].errors)
                                        ELSE before[i]
                      /\ frame[t].all_params = hist[t].returned_params

\* A batch of two came back from the bridge: the first result was an
\* awaitable, the second was not.
C8_Witness ==
    \E t \in Workers :
        /\ pc[t] = "encode"
        /\ view.enable_async
        /\ Len(hist[t].returned_results) = 2
        /\ hist[t].returned_results[1].kind = "awaitable"
        /\ hist[t].returned_results[2].kind = "ExecutionResult"
        /\ frame[t].execution_results[1].kind = "ExecutionResult"

\* What get_context is to start from: the configured context when it is a
\* non-empty mapping, an empty mapping otherwise.
ContextBase == IF IsMapping(view.context) /\ view.context.items # {}
               THEN view.context
               ELSE PyDict({})

C9_ContextOfRequest ==
    \A t \in Workers :
        hist[t].queries = 1 =>
            LET ctx == hist[t].context_value
                injects_loaders == /\ view.dataloaders_map_fn
                                   /\ ~HasKey(ContextBase, "dataloaders")
            IN /\ IsMapping(ctx)
               /\ \A k \in Keys(ContextBase) : Get(ctx, k) = Get(ContextBase, k)
               /\ Keys(ctx) = Keys(ContextBase) \cup {"request"}
                                \cup (IF injects_loaders THEN {"dataloaders"} ELSE {})
               /\ (~HasKey(ContextBase, "request") =>
                       Get(ctx, "request") = RequestRef(t))
               /\ (injects_loaders => Get(ctx, "dataloaders") = Dataloaders(t))
               /\ hist[t].factory_calls = IF injects_loaders THEN 1 ELSE 0

\* C9: the context handed to run_http_query holds the configured keys with
\* their configured values, `request` (the worker's own request, unless
\* configured) and, only when a factory is configured and the key is not,
\* `dataloaders` from one call of the factory, which is not called
\* otherwise; and no step of any request changes the view's context.
C9_GetContext ==
    /\ []C9_ContextOfRequest
    /\ [][view'.context = view.context]_vars

\* Both workers built a context from a configured mapping that has its own
\* `request`: each kept it and got dataloaders from its own factory call.
C9_Witness ==
    /\ \A t \in Workers :
        /\ hist[t].queries = 1
        /\ hist[t].factory_calls = 1
        /\ Get(hist[t].context_value, "request") = Configured("request")
        /\ Get(hist[t].context_value, "dataloaders") = Dataloaders(t)
    /\ view.context = PyDict({<<"request", Configured("request")>>})

====
